---- MODULE Spec2Model ----
(***************************************************************************)
(* Model of src/app.py: the dual-reference Z-score calculator              *)
(* (calculate_dual_zscore) and the Streamlit script that drives it (main). *)
(*                                                                         *)
(* A DataFrame is a sequence of rows, a row is a function from column      *)
(* names to cell values.  Metric cells and scores are binary floating      *)
(* point numbers, rounded to nearest-even after every operation as numpy   *)
(* does, with a significand of Precision bits (float64 has 53).            *)
(***************************************************************************)
EXTENDS Integers, Sequences, FiniteSets, TLC

VARIABLES
    pc,                   \* position inside calculate_dual_zscore
    df,                   \* argument df: the record set
    target_players,       \* argument target_players
    reference_categories, \* argument reference_categories
    value_cols,           \* argument value_cols
    df_targets,           \* line 71
    all_comparisons,      \* line 74: list of per-category frames
    k,                    \* index of the for loop of line 76
    stats_log,            \* categories whose mean/std were computed (line 84)
    result,               \* the returned DataFrame
    mpc,                  \* position inside main ("off" when main is not running)
    data,                 \* main: what load_data returned
    selected_players,     \* main: sidebar selection
    selected_references,  \* main: sidebar selection
    selected_metrics,     \* main: sidebar selection
    df_dual_zscore,       \* main: what the calculator returned
    charts,               \* main: number of charts handed to st.altair_chart
    trace                 \* main: the steps taken so far, in order

vars == <<pc, df, target_players, reference_categories, value_cols, df_targets,
          all_comparisons, k, stats_log, result, mpc, data, selected_players,
          selected_references, selected_metrics, df_dual_zscore, charts, trace>>

calcVars == <<pc, df, target_players, reference_categories, value_cols,
              df_targets, all_comparisons, k, stats_log, result>>

mainVars == <<mpc, data, selected_players, selected_references,
              selected_metrics, df_dual_zscore, charts, trace>>

(***************************************************************************)
(* Bounds of the model.                                                    *)
(***************************************************************************)
Precision == 7      \* significand bits of the floating point format
MaxRows == 3        \* rows of the record set handed to the calculator
MaxFileRows == 2    \* rows of the Excel file read by main

(***************************************************************************)
(* Configuration constants of app.py.                                      *)
(***************************************************************************)
COL_JUGADOR == "JUGADOR"
COL_CATEGORIA == "CATEGORIA"               \* the sheet writes it with an accent
COL_RM_SENTADILLA == "RM SENTADILLA"
COL_VO2_MAX == "VO2 MAX"
COL_REFERENCIA == "Categoria de Referencia" \* line 104, accent left out
COLS_ZSCORE == <<COL_RM_SENTADILLA, COL_VO2_MAX>>
JUGADORES_COMPARAR_DEFAULT == <<"CALAGUA", "OJEDA", "ZEGARRA">>
CATEGORIAS_REFERENCIA == <<"1 EQUIPO", "SUB 17">>

(***************************************************************************)
(* Floating point.  A number is [m, e], standing for m * 2^e, with m odd   *)
(* (or m = 0, e = 0) and |m| < 2^Precision.  NaN has its own encoding.     *)
(***************************************************************************)
NaN == [m |-> 0, e |-> 1]
Zero == [m |-> 0, e |-> 0]

Abs(x) == IF x < 0 THEN -x ELSE x

Sign(x) == IF x < 0 THEN -1 ELSE 1

Min(a, b) == IF a < b THEN a ELSE b

\* number of bits of the natural number n
BitLen(n) == CHOOSE b \in 0..30 : n < 2^b /\ (b = 0 \/ 2^(b - 1) <= n)

\* number of trailing zero bits of the positive natural number n
TrailingZeros(n) == CHOOSE t \in 0..30 : n % 2^t = 0 /\ n % 2^(t + 1) # 0

\* the canonical form of the exactly representable number s * n * 2^e
Canon(s, n, e) ==
    IF n = 0 THEN Zero
    ELSE LET t == TrailingZeros(n) IN [m |-> s * (n \div 2^t), e |-> e + t]

\* s * n * 2^e rounded to Precision bits, ties to even
Fl(s, n, e) ==
    IF n < 2^Precision THEN Canon(s, n, e)
    ELSE LET sh == BitLen(n) - Precision
             q == n \div 2^sh
             r == n % 2^sh
             half == 2^(sh - 1)
             up == r > half \/ (r = half /\ q % 2 = 1)
         IN Canon(s, IF up THEN q + 1 ELSE q, e + sh)

FromInt(i) == Fl(Sign(i), Abs(i), 0)

FAdd(a, b) ==
    LET e == Min(a.e, b.e)
        n == a.m * 2^(a.e - e) + b.m * 2^(b.e - e)
    IN IF a = Zero THEN b ELSE IF b = Zero THEN a ELSE Fl(Sign(n), Abs(n), e)

FNeg(a) == [m |-> -a.m, e |-> a.e]

FSub(a, b) == FAdd(a, FNeg(b))

FMul(a, b) == Fl(Sign(a.m) * Sign(b.m), Abs(a.m) * Abs(b.m), a.e + b.e)

\* a / b for b # 0: the quotient to Precision + 2 bits and a sticky bit
FDiv(a, b) ==
    LET sh == Precision + 2 + BitLen(Abs(b.m))
        n == Abs(a.m) * 2^sh
        q == n \div Abs(b.m)
        sticky == IF n % Abs(b.m) = 0 THEN 0 ELSE 1
    IN Fl(Sign(a.m) * Sign(b.m), 2 * q + sticky, a.e - b.e - sh - 1)

RECURSIVE ISqrtBits(_, _, _)
ISqrtBits(x, bit, acc) ==
    IF bit < 0 THEN acc
    ELSE IF (acc + 2^bit) * (acc + 2^bit) <= x
         THEN ISqrtBits(x, bit - 1, acc + 2^bit)
         ELSE ISqrtBits(x, bit - 1, acc)

\* floor of the square root of the natural number x < 2^30
ISqrt(x) == ISqrtBits(x, 14, 0)

\* the square root of a >= 0, correctly rounded
FSqrt(a) ==
    LET sh == 2 * Precision + 2 + ((a.e) % 2)
        x == a.m * 2^sh
        s == ISqrt(x)
        sticky == IF s * s = x THEN 0 ELSE 1
    IN Fl(1, 2 * s + sticky, ((a.e - sh) \div 2) - 1)

(***************************************************************************)
(* DataFrames.                                                             *)
(***************************************************************************)
Range(s) == {s[i] : i \in 1..Len(s)}

SeqsUpTo(S, n) == UNION {[1..i -> S] : i \in 0..n}

\* duplicate-free lists over S
ListsOf(S) == {s \in SeqsUpTo(S, Cardinality(S)) :
                  \A i, j \in 1..Len(s) : i # j => s[i] # s[j]}

\* the values the cells of the record set are drawn from: who plays where,
\* and the measurements
ROSTER == {<<"CALAGUA", "SUB 17">>, <<"PEREZ", "SUB 17">>,
           <<"PEREZ", "1 EQUIPO">>}
PLAYERS == {"CALAGUA", "PEREZ"}
CATEGORIES == Range(CATEGORIAS_REFERENCIA)
RM_VALUES == {FromInt(110), FromInt(120)}
VO2_VALUES == {FromInt(50)}

\* one record of the cleaned Excel sheet
Record(jugador, categoria, rm, vo2) ==
    (COL_JUGADOR :> jugador) @@ (COL_CATEGORIA :> categoria) @@
    (COL_RM_SENTADILLA :> rm) @@ (COL_VO2_MAX :> vo2)

RECORDS == {Record(who[1], who[2], rm, vo2) :
                who \in ROSTER, rm \in RM_VALUES, vo2 \in VO2_VALUES}

\* frame[col] as a list of cells
Column(frame, col) == [i \in 1..Len(frame) |-> frame[i][col]]

\* f'Z-Score {col}'
ZScoreName(col) == "Z-Score " \o col

(***************************************************************************)
(* pandas' mean and std (nanops.nanmean, nanops.nanvar with ddof = 1).     *)
(***************************************************************************)
RECURSIVE SumFrom(_, _, _)
SumFrom(cells, i, acc) ==
    IF i > Len(cells) THEN acc ELSE SumFrom(cells, i + 1, FAdd(acc, cells[i]))

Sum(cells) == SumFrom(cells, 1, Zero)

\* values.sum() / count
Mean(cells) == FDiv(Sum(cells), FromInt(Len(cells)))

\* the population variance's divisor: ddof = 0
DofPopulation(count) == count

\* the degrees of freedom: count - ddof, ddof = 1
Dof(count) == count - 1

\* sum((avg - values) ** 2) / (count - ddof); NaN when count <= ddof
Var(cells) ==
    IF Dof(Len(cells)) <= 0 THEN NaN
    ELSE LET avg == Mean(cells)
             sqr == [i \in 1..Len(cells) |->
                        FMul(FSub(avg, cells[i]), FSub(avg, cells[i]))]
         IN FDiv(Sum(sqr), FromInt(Dof(Len(cells))))

Std(cells) == IF Var(cells) = NaN THEN NaN ELSE FSqrt(Var(cells))

\* line 84: df_reference[value_cols].agg(['mean', 'std']).T
Stats(df_reference, cols) ==
    [c \in Range(cols) |-> [mean |-> Mean(Column(df_reference, c)),
                            std |-> Std(Column(df_reference, c))]]

(***************************************************************************)
(* calculate_dual_zscore, lines 64-115.                                    *)
(***************************************************************************)
\* the first row of each target only, as drop_duplicates would leave
FilterTargetsFirstOnly(frame, players) ==
    LET IsFirst(i) == /\ frame[i][COL_JUGADOR] \in Range(players)
                      /\ \A j \in 1..(i - 1) :
                            frame[j][COL_JUGADOR] # frame[i][COL_JUGADOR]
        RECURSIVE Keep(_)
        Keep(i) == IF i > Len(frame) THEN <<>>
                   ELSE IF IsFirst(i) THEN <<frame[i]>> \o Keep(i + 1)
                   ELSE Keep(i + 1)
    IN Keep(1)

\* line 71: df[df[COL_JUGADOR].isin(target_players)]
FilterTargets(frame, players) ==
    LET IsTarget(row) == row[COL_JUGADOR] \in Range(players)
    IN SelectSeq(frame, IsTarget)

\* the whole record set, whatever the category
ReferenceOfUnfiltered(frame, ref_cat) == frame

\* line 78: df[df[COL_CATEGORIA] == ref_cat]
ReferenceOf(frame, ref_cat) ==
    LET InCat(row) == row[COL_CATEGORIA] = ref_cat
    IN SelectSeq(frame, InCat)

\* lines 97-101: the score of one cell
ZScore(x, mean, std) ==
    IF std = Zero \/ std = NaN THEN Zero ELSE FDiv(FSub(x, mean), std)

\* lines 88-104 for one row: the score columns and the reference column added
ScoredRow(row, ref_cat, cols, stats) ==
    [c \in DOMAIN row \cup {ZScoreName(col) : col \in Range(cols)}
                      \cup {COL_REFERENCIA} |->
        IF c = COL_REFERENCIA THEN ref_cat
        ELSE IF \E col \in Range(cols) : c = ZScoreName(col)
             THEN LET col == CHOOSE cc \in Range(cols) : c = ZScoreName(cc)
                  IN ZScore(row[col], stats[col].mean, stats[col].std)
             ELSE row[c]]

\* the statistics taken over the whole record set instead of df_reference
CategoryFramePooled(frame, targets, ref_cat, cols) ==
    LET stats == Stats(frame, cols)
    IN [i \in 1..Len(targets) |-> ScoredRow(targets[i], ref_cat, cols, stats)]

\* lines 84-104: df_cat_zscore for one reference category
CategoryFrame(frame, targets, ref_cat, cols) ==
    LET stats == Stats(ReferenceOf(frame, ref_cat), cols)
    IN [i \in 1..Len(targets) |-> ScoredRow(targets[i], ref_cat, cols, stats)]

\* the frames joined last to first
RECURSIVE ConcatBackwards(_)
ConcatBackwards(frames) ==
    IF frames = <<>> THEN <<>>
    ELSE ConcatBackwards(Tail(frames)) \o Head(frames)

\* line 111: pd.concat(all_comparisons, ignore_index=True)
RECURSIVE Concat(_)
Concat(frames) ==
    IF frames = <<>> THEN <<>> ELSE Head(frames) \o Concat(Tail(frames))

\* nothing dropped
ColsToDropNothing(cols) == {}

\* line 114: the columns to drop
ColsToDrop(cols) == Range(cols)

\* line 115: df_final.drop(columns=cols_to_drop, errors='ignore')
DropColumns(frame, cols) ==
    [i \in 1..Len(frame) |->
        [c \in DOMAIN frame[i] \ ColsToDrop(cols) |-> frame[i][c]]]

\* the arguments the calculator is called with
TARGET_LISTS == {<<>>, <<"CALAGUA">>, <<"PEREZ", "CALAGUA">>}
REFERENCE_LISTS == {<<>>, <<"1 EQUIPO", "SUB 17">>, <<"SUB 17", "1 EQUIPO">>}
COLUMN_LISTS == {<<>>, <<COL_RM_SENTADILLA>>, COLS_ZSCORE}

\* the reference categories of the call that are not skipped, in order
RECURSIVE Processed(_, _)
Processed(frame, refs) ==
    IF refs = <<>> THEN <<>>
    ELSE IF ReferenceOf(frame, Head(refs)) = <<>>
         THEN Processed(frame, Tail(refs))
         ELSE <<Head(refs)>> \o Processed(frame, Tail(refs))

\* line 84 raises when a category with records meets an empty value_cols
Raises(frame, refs, cols) == cols = <<>> /\ Processed(frame, refs) # <<>>

\* what a call that does not raise returns
calculate_dual_zscore(frame, players, refs, cols) ==
    LET cats == Processed(frame, refs)
        targets == FilterTargets(frame, players)
        comparisons == [i \in 1..Len(cats) |->
                           CategoryFrame(frame, targets, cats[i], cols)]
    IN IF comparisons = <<>> THEN <<>>
       ELSE DropColumns(Concat(comparisons), cols)

(***************************************************************************)
(* main, lines 118-298.                                                    *)
(***************************************************************************)
\* line 147
all_metrics == <<COL_RM_SENTADILLA, COL_VO2_MAX>>

\* line 146: the players present in the data
all_players(frame) == Range(Column(frame, COL_JUGADOR))

\* line 150
target_players_filtered(frame) ==
    LET Present(p) == p \in all_players(frame)
    IN SelectSeq(JUGADORES_COMPARAR_DEFAULT, Present)

\* lines 272-281: one chart per selected metric
ChartsFor(metrics) == Len(metrics)

MainIdle ==
    /\ mpc = "off"
    /\ data = <<>>
    /\ selected_players = <<>>
    /\ selected_references = <<>>
    /\ selected_metrics = <<>>
    /\ df_dual_zscore = <<>>
    /\ charts = 0
    /\ trace = <<>>

CalcIdle ==
    /\ df_targets = <<>>
    /\ all_comparisons = <<>>
    /\ k = 0
    /\ stats_log = <<>>
    /\ result = <<>>

\* a direct call of calculate_dual_zscore(df, target_players, ...)
InitCall ==
    /\ pc = "filter"
    /\ df \in SeqsUpTo(RECORDS, MaxRows)
    /\ target_players \in TARGET_LISTS
    /\ reference_categories \in REFERENCE_LISTS
    /\ value_cols \in COLUMN_LISTS
    /\ CalcIdle
    /\ MainIdle

\* a run of the script: main() is about to load the data
InitMain ==
    /\ pc = "idle"
    /\ df = <<>>
    /\ target_players = <<>>
    /\ reference_categories = <<>>
    /\ value_cols = <<>>
    /\ CalcIdle
    /\ mpc = "load"
    /\ data = <<>>
    /\ selected_players = <<>>
    /\ selected_references = <<>>
    /\ selected_metrics = <<>>
    /\ df_dual_zscore = <<>>
    /\ charts = 0
    /\ trace = <<>>

Init == InitCall \/ InitMain

\* lines 71-74
Filter ==
    /\ pc = "filter"
    /\ df_targets' = FilterTargets(df, target_players)
    /\ all_comparisons' = <<>>
    /\ k' = 1
    /\ pc' = "loop"
    /\ UNCHANGED <<df, target_players, reference_categories, value_cols,
                   stats_log, result>>
    /\ UNCHANGED mainVars

\* lines 76-81: a category without records is skipped
LoopSkip ==
    /\ pc = "loop"
    /\ k <= Len(reference_categories)
    /\ ReferenceOf(df, reference_categories[k]) = <<>>
    /\ k' = k + 1
    /\ UNCHANGED <<pc, df, target_players, reference_categories, value_cols,
                   df_targets, all_comparisons, stats_log, result>>
    /\ UNCHANGED mainVars

\* line 84 with value_cols = []: agg over no column raises ValueError
LoopRaise ==
    /\ pc = "loop"
    /\ k <= Len(reference_categories)
    /\ ReferenceOf(df, reference_categories[k]) # <<>>
    /\ value_cols = <<>>
    /\ pc' = "raised"
    /\ UNCHANGED <<df, target_players, reference_categories, value_cols,
                   df_targets, all_comparisons, k, stats_log, result>>
    /\ UNCHANGED mainVars

\* lines 84-105: one pass of the loop
LoopPass ==
    /\ pc = "loop"
    /\ k <= Len(reference_categories)
    /\ ReferenceOf(df, reference_categories[k]) # <<>>
    /\ value_cols # <<>>
    /\ stats_log' = Append(stats_log, reference_categories[k])
    /\ all_comparisons' = Append(all_comparisons,
           CategoryFrame(df, df_targets, reference_categories[k], value_cols))
    /\ k' = k + 1
    /\ UNCHANGED <<pc, df, target_players, reference_categories, value_cols,
                   df_targets, result>>
    /\ UNCHANGED mainVars

\* lines 107-108
ReturnEmpty ==
    /\ pc = "loop"
    /\ k > Len(reference_categories)
    /\ all_comparisons = <<>>
    /\ result' = <<>>
    /\ pc' = "done"
    /\ UNCHANGED <<df, target_players, reference_categories, value_cols,
                   df_targets, all_comparisons, k, stats_log>>
    /\ UNCHANGED mainVars

\* lines 111-115
ReturnFinal ==
    /\ pc = "loop"
    /\ k > Len(reference_categories)
    /\ all_comparisons # <<>>
    /\ result' = DropColumns(Concat(all_comparisons), value_cols)
    /\ pc' = "done"
    /\ UNCHANGED <<df, target_players, reference_categories, value_cols,
                   df_targets, all_comparisons, k, stats_log>>
    /\ UNCHANGED mainVars

\* lines 140-143: load_data returns the cleaned sheet, or an empty frame
\* when the file cannot be read or no row survives the cleaning
Load ==
    /\ mpc = "load"
    /\ \E loaded \in SeqsUpTo(RECORDS, MaxFileRows) :
          /\ data' = loaded
          /\ mpc' = IF loaded = <<>> THEN "exit" ELSE "select"
    /\ trace' = Append(trace, "load")
    /\ UNCHANGED <<selected_players, selected_references, selected_metrics,
                   df_dual_zscore, charts>>
    /\ UNCHANGED calcVars

\* lines 146-176: the three multiselect widgets
Select ==
    /\ mpc = "select"
    /\ selected_players' \in ListsOf(Range(target_players_filtered(data)))
    /\ selected_references' \in ListsOf(Range(CATEGORIAS_REFERENCIA))
    /\ selected_metrics' \in ListsOf(Range(all_metrics))
    /\ trace' = Append(trace, "select")
    /\ mpc' = "check"
    /\ UNCHANGED <<data, df_dual_zscore, charts>>
    /\ UNCHANGED calcVars

\* lines 178-180: an incomplete selection ends the run
Incomplete ==
    /\ mpc = "check"
    /\ \/ selected_players = <<>>
       \/ selected_references = <<>>
       \/ selected_metrics = <<>>
    /\ mpc' = "exit"
    /\ UNCHANGED <<data, selected_players, selected_references,
                   selected_metrics, df_dual_zscore, charts, trace>>
    /\ UNCHANGED calcVars

\* the call made with the selected metrics instead of all_metrics
ComputeSelectedMetrics ==
    /\ mpc = "check"
    /\ selected_players # <<>>
    /\ selected_references # <<>>
    /\ selected_metrics # <<>>
    /\ pc = "idle"
    /\ pc' = "filter"
    /\ df' = data
    /\ target_players' = selected_players
    /\ reference_categories' = selected_references
    /\ value_cols' = selected_metrics
    /\ trace' = Append(trace, "compute")
    /\ mpc' = "calc"
    /\ UNCHANGED <<df_targets, all_comparisons, k, stats_log, result>>
    /\ UNCHANGED <<data, selected_players, selected_references,
                   selected_metrics, df_dual_zscore, charts>>

\* lines 183-188: the call of calculate_dual_zscore
Compute ==
    /\ mpc = "check"
    /\ selected_players # <<>>
    /\ selected_references # <<>>
    /\ selected_metrics # <<>>
    /\ pc = "idle"
    /\ pc' = "filter"
    /\ df' = data
    /\ target_players' = selected_players
    /\ reference_categories' = selected_references
    /\ value_cols' = all_metrics
    /\ trace' = Append(trace, "compute")
    /\ mpc' = "calc"
    /\ UNCHANGED <<df_targets, all_comparisons, k, stats_log, result>>
    /\ UNCHANGED <<data, selected_players, selected_references,
                   selected_metrics, df_dual_zscore, charts>>

\* lines 190-192: nothing to display
NoData ==
    /\ mpc = "calc"
    /\ pc = "done"
    /\ result = <<>>
    /\ df_dual_zscore' = result
    /\ mpc' = "exit"
    /\ UNCHANGED <<data, selected_players, selected_references,
                   selected_metrics, charts, trace>>
    /\ UNCHANGED calcVars

\* lines 197-292: the charts are built and handed to st.altair_chart
Render ==
    /\ mpc = "calc"
    /\ pc = "done"
    /\ result # <<>>
    /\ df_dual_zscore' = result
    /\ charts' = ChartsFor(selected_metrics)
    /\ trace' = Append(trace, "render")
    /\ mpc' = "end"
    /\ UNCHANGED <<data, selected_players, selected_references,
                   selected_metrics>>
    /\ UNCHANGED calcVars

Next ==
    \/ Filter
    \/ LoopSkip
    \/ LoopRaise
    \/ LoopPass
    \/ ReturnEmpty
    \/ ReturnFinal
    \/ Load
    \/ Select
    \/ Incomplete
    \/ Compute
    \/ NoData
    \/ Render

Spec == Init /\ [][Next]_vars

\* the stepwise run returns what the call as a whole is defined to return
StepsAgree ==
    /\ pc = "done" =>
         /\ ~Raises(df, reference_categories, value_cols)
         /\ result = calculate_dual_zscore(df, target_players,
                                          reference_categories, value_cols)
    /\ pc = "raised" => Raises(df, reference_categories, value_cols)

(***************************************************************************)
(* Vocabulary of the properties, stated on the record set itself.          *)
(***************************************************************************)
Returned == pc = "done"

\* the records of the record set labelled grp, in order
GroupRecords(frame, grp) ==
    LET Labelled(row) == row[COL_CATEGORIA] = grp IN SelectSeq(frame, Labelled)

\* the records of the record set of the requested entities, in order
TargetRecords(frame, players) ==
    LET Wanted(row) == \E i \in 1..Len(players) : row[COL_JUGADOR] = players[i]
    IN SelectSeq(frame, Wanted)

\* the rows of a result tagged with reference group grp, in order
Tagged(frame, grp) ==
    LET HasTag(row) == row[COL_REFERENCIA] = grp IN SelectSeq(frame, HasTag)

\* the values of metric over a list of records
Values(records, metric) == [i \in 1..Len(records) |-> records[i][metric]]

RECURSIVE Total(_)
Total(cells) ==
    IF cells = <<>> THEN Zero
    ELSE FAdd(Total(SubSeq(cells, 1, Len(cells) - 1)), cells[Len(cells)])

SampleMean(cells) == FDiv(Total(cells), FromInt(Len(cells)))

\* the sample standard deviation, N - 1 in the denominator; NaN for N = 1
SampleStd(cells) ==
    IF Len(cells) < 2 THEN NaN
    ELSE LET mu == SampleMean(cells)
             sq == [i \in 1..Len(cells) |->
                       FMul(FSub(mu, cells[i]), FSub(mu, cells[i]))]
         IN FSqrt(FDiv(Total(sq), FromInt(Len(cells) - 1)))

AllEqual(cells) == \A i, j \in 1..Len(cells) : cells[i] = cells[j]

Reverse(s) == [i \in 1..Len(s) |-> s[Len(s) + 1 - i]]

\* the record set without the records labelled grp
Without(frame, grp) ==
    LET Other(row) == row[COL_CATEGORIA] # grp IN SelectSeq(frame, Other)

\* the pairs <<reference group, target record>> in the order claimed
RECURSIVE ExpectedOrder(_, _, _)
ExpectedOrder(frame, players, refs) ==
    IF refs = <<>> THEN <<>>
    ELSE LET recs == TargetRecords(frame, players)
             here == IF GroupRecords(frame, Head(refs)) = <<>> THEN <<>>
                     ELSE [i \in 1..Len(recs) |-> <<Head(refs), recs[i]>>]
         IN here \o ExpectedOrder(frame, players, Tail(refs))

\* the names of the score fields of the requested metrics
ScoreFields(cols) == {ZScoreName(cols[j]) : j \in 1..Len(cols)}

\* the constants the metric is multiplied by
SCALE_FACTORS == {2, 3}

Scaled(frame, metric, c) ==
    [i \in 1..Len(frame) |->
        [frame[i] EXCEPT ![metric] = FMul(FromInt(c), frame[i][metric])]]

IsPrefix(s, t) == Len(s) <= Len(t) /\ \A i \in 1..Len(s) : s[i] = t[i]

Called == pc # "idle"

Half == [m |-> 1, e |-> -1]
ThreeHalves == [m |-> 3, e |-> -1]

\* the frame before line 115 drops the raw columns: row i of the result is
\* row i of this frame
Undropped == Concat(all_comparisons)

\* the scenario of the specification: A, A, B in REF, X in TARGET
Scenario ==
    << (COL_JUGADOR :> "A") @@ (COL_CATEGORIA :> "REF") @@ ("M" :> FromInt(10)),
       (COL_JUGADOR :> "A") @@ (COL_CATEGORIA :> "REF") @@ ("M" :> FromInt(20)),
       (COL_JUGADOR :> "B") @@ (COL_CATEGORIA :> "REF") @@ ("M" :> FromInt(30)),
       (COL_JUGADOR :> "X") @@ (COL_CATEGORIA :> "TARGET") @@ ("M" :> FromInt(25)) >>

ScenarioResult ==
    << (COL_JUGADOR :> "X") @@ (COL_CATEGORIA :> "TARGET") @@
       ("Z-Score M" :> Half) @@ (COL_REFERENCIA :> "REF") >>

ScenarioComputed == calculate_dual_zscore(Scenario, <<"X">>, <<"REF">>, <<"M">>)

\* reference mean 50, standard deviation 10, raw value 65
ExampleComputed == ZScore(FromInt(65), FromInt(50), FromInt(10))

(***************************************************************************)
(* C1: for every reference group with records and every requested metric   *)
(* whose sample standard deviation (N - 1) over all the records labelled   *)
(* with the group, the targets' own included, is a non-zero number, every  *)
(* row tagged with the group holds (raw - mean) / std for its record; the  *)
(* scenario 10, 20, 30 against 25 gives 0.5, and mean 50, std 10, raw 65   *)
(* gives 1.5.                                                              *)
(***************************************************************************)
C1_ScoreFormula ==
    /\ Returned =>
         LET raw == Undropped
         IN /\ Len(result) = Len(raw)
            /\ \A n \in 1..Len(reference_categories) :
                 \A j \in 1..Len(value_cols) :
                   LET grp == reference_categories[n]
                       cells == Values(GroupRecords(df, grp), value_cols[j])
                       mu == SampleMean(cells)
                       sd == SampleStd(cells)
                   IN (cells # <<>> /\ sd # NaN /\ sd # Zero) =>
                        \A i \in 1..Len(result) :
                           result[i][COL_REFERENCIA] = grp =>
                              result[i][ZScoreName(value_cols[j])] =
                                  FDiv(FSub(raw[i][value_cols[j]], mu), sd)
    /\ ScenarioComputed = ScenarioResult
    /\ ExampleComputed = ThreeHalves

\* a target that belongs to the reference group it is scored against gets a
\* non-zero score
C1_Witness ==
    /\ Returned
    /\ \E i \in 1..Len(result) :
         /\ result[i][COL_CATEGORIA] = result[i][COL_REFERENCIA]
         /\ result[i][ZScoreName(COL_RM_SENTADILLA)] \notin {Zero, NaN}

(***************************************************************************)
(* C2: when all the values of a metric in a reference group with records   *)
(* are identical, or the group has a single record, every row tagged with  *)
(* the group has score 0 for the metric.                                   *)
(***************************************************************************)
C2_DegenerateVarianceScoresZero ==
    Returned =>
        \A i \in 1..Len(result) : \A j \in 1..Len(value_cols) :
            AllEqual(Values(GroupRecords(df, result[i][COL_REFERENCIA]),
                            value_cols[j]))
                => result[i][ZScoreName(value_cols[j])] = Zero

(***************************************************************************)
(* C3: a requested reference group without records tags no row of the      *)
(* result, and when every requested group is without records the call      *)
(* returns the empty result and does not raise.                            *)
(***************************************************************************)
C3_SkipEmptyReference ==
    /\ Returned =>
         \A n \in 1..Len(reference_categories) :
            GroupRecords(df, reference_categories[n]) = <<>>
                => Tagged(result, reference_categories[n]) = <<>>
    /\ (\A n \in 1..Len(reference_categories) :
            GroupRecords(df, reference_categories[n]) = <<>>)
         => /\ pc # "raised"
            /\ Returned => result = <<>>

\* one requested group was skipped and another one produced rows
C3_Witness ==
    /\ Returned
    /\ result # <<>>
    /\ \E n \in 1..Len(reference_categories) :
          GroupRecords(df, reference_categories[n]) = <<>>

(***************************************************************************)
(* C4: with an empty list of targets, of reference groups or of metrics    *)
(* the call returns the empty result at once: it builds no reference       *)
(* statistics, produces no row and does not raise.                         *)
(***************************************************************************)
C4_EmptyArgumentsReturnAtOnce ==
    (mpc = "off" /\ (target_players = <<>> \/ reference_categories = <<>>
                                           \/ value_cols = <<>>))
        => /\ pc # "raised"
           /\ stats_log = <<>>
           /\ Concat(all_comparisons) = <<>>
           /\ Returned => result = <<>>

(***************************************************************************)
(* C5: removing all the records labelled R2 from the record set changes    *)
(* neither the set nor the scores of the rows tagged R1.                   *)
(***************************************************************************)
C5_Original ==
    Returned =>
        \A a, b \in 1..Len(reference_categories) :
            a # b =>
                Tagged(calculate_dual_zscore(
                           Without(df, reference_categories[b]), target_players,
                           reference_categories, value_cols),
                       reference_categories[a])
                    = Tagged(result, reference_categories[a])

\* C5 as amended: removing all the records labelled R2 removes, from the rows
\* tagged R1, exactly the rows of the target records labelled R2, and leaves
\* the other rows tagged R1 as they were, in order and in score.
C5_Amended ==
    Returned =>
        \A a, b \in 1..Len(reference_categories) :
            a # b =>
                Tagged(calculate_dual_zscore(
                           Without(df, reference_categories[b]), target_players,
                           reference_categories, value_cols),
                       reference_categories[a])
                    = Without(Tagged(result, reference_categories[a]),
                              reference_categories[b])

\* two reference groups with records, a target record in each of them, and
\* a score that is not zero
C5_Witness ==
    /\ Returned
    /\ Len(reference_categories) = 2
    /\ \A n \in 1..2 :
          \E i \in 1..Len(result) :
             /\ result[i][COL_REFERENCIA] = reference_categories[1]
             /\ result[i][COL_CATEGORIA] = reference_categories[n]
             /\ result[i][ZScoreName(COL_RM_SENTADILLA)] \notin {Zero, NaN}

(***************************************************************************)
(* C6: the rows of the result are grouped by reference group, in the order *)
(* the groups were given and without the skipped ones, and inside a group  *)
(* they follow the order the target records have in the record set,        *)
(* whatever the order of the target list.                                  *)
(***************************************************************************)
C6_ResultOrder ==
    Returned =>
        LET want == ExpectedOrder(df, target_players, reference_categories)
            raw == Undropped
        IN /\ Len(result) = Len(want)
           /\ Len(raw) = Len(want)
           /\ \A i \in 1..Len(want) :
                /\ result[i][COL_REFERENCIA] = want[i][1]
                /\ \A c \in DOMAIN want[i][2] :
                      /\ raw[i][c] = want[i][2][c]
                      /\ c \in DOMAIN result[i] => result[i][c] = want[i][2][c]
           /\ Len(target_players) > 1 =>
                result = calculate_dual_zscore(df, Reverse(target_players),
                                               reference_categories, value_cols)

\* two groups processed, and the records of two targets that stand in the
\* record set in the order opposite to the target list
C6_Witness ==
    /\ Returned
    /\ Len(stats_log) = 2
    /\ Len(target_players) = 2
    /\ Len(result) >= 4
    /\ result[1][COL_JUGADOR] = target_players[2]
    /\ result[2][COL_JUGADOR] = target_players[1]

(***************************************************************************)
(* C7: every row of the result has the entity identifier, the reference    *)
(* group label and one score field per requested metric, and no other      *)
(* field.                                                                  *)
(***************************************************************************)
C7_Original ==
    Returned =>
        \A i \in 1..Len(result) :
            DOMAIN result[i] =
                {COL_JUGADOR, COL_REFERENCIA} \cup ScoreFields(value_cols)

\* C7 as amended: every row of the result has every column of its input
\* record except the requested metric columns (the entity identifier, the
\* record's own group label and the metrics that were not requested stay,
\* with their values), the reference group label, and one score field per
\* requested metric.
C7_Amended ==
    Returned =>
        LET want == ExpectedOrder(df, target_players, reference_categories)
        IN /\ Len(result) = Len(want)
           /\ \A i \in 1..Len(result) :
                LET kept == DOMAIN want[i][2] \ {value_cols[j] : j \in 1..Len(value_cols)}
                IN /\ DOMAIN result[i] =
                        kept \cup {COL_REFERENCIA} \cup ScoreFields(value_cols)
                   /\ \A c \in kept : result[i][c] = want[i][2][c]

\* a row of a call that requested one of the two metrics
C7_Witness ==
    /\ Returned
    /\ result # <<>>
    /\ value_cols = <<COL_RM_SENTADILLA>>
    /\ COL_VO2_MAX \in DOMAIN result[1]
    /\ COL_CATEGORIA \in DOMAIN result[1]

(***************************************************************************)
(* C8: multiplying every value of a metric, in the reference population    *)
(* and in the target rows, by the same positive constant leaves every      *)
(* score of the metric as it was; a score of 0 for lack of variance stays  *)
(* 0.                                                                      *)
(***************************************************************************)
C8_LinearScaling ==
    Returned =>
        \A c \in SCALE_FACTORS : \A j \in 1..Len(value_cols) :
            LET scaled == calculate_dual_zscore(Scaled(df, value_cols[j], c),
                              target_players, reference_categories, value_cols)
            IN /\ Len(scaled) = Len(result)
               /\ \A i \in 1..Len(result) :
                     scaled[i][ZScoreName(value_cols[j])] =
                         result[i][ZScoreName(value_cols[j])]

\* C8, its zero-variance clause: a score that is 0 because all the values of
\* the metric in the reference group are identical is still 0 after every
\* value of the metric was multiplied by the same positive constant.
C8_ZeroVarianceStaysZero ==
    Returned =>
        \A c \in SCALE_FACTORS : \A j \in 1..Len(value_cols) :
            LET scaled == calculate_dual_zscore(Scaled(df, value_cols[j], c),
                              target_players, reference_categories, value_cols)
            IN \A i \in 1..Len(result) :
                  (/\ AllEqual(Values(GroupRecords(df, result[i][COL_REFERENCIA]),
                                      value_cols[j]))
                   /\ result[i][ZScoreName(value_cols[j])] = Zero)
                     => scaled[i][ZScoreName(value_cols[j])] = Zero

(***************************************************************************)
(* C9: for each requested reference group with records the result has as   *)
(* many rows tagged with it as the record set has records of the requested *)
(* entities, one per record and not one per entity; a requested entity     *)
(* without records adds no row and causes no error.                        *)
(***************************************************************************)
C9_RowCount ==
    /\ Returned =>
         /\ \A n \in 1..Len(reference_categories) :
               GroupRecords(df, reference_categories[n]) # <<>> =>
                   Len(Tagged(result, reference_categories[n]))
                       = Len(TargetRecords(df, target_players))
         /\ \A t \in 1..Len(target_players) :
               TargetRecords(df, <<target_players[t]>>) = <<>> =>
                   \A i \in 1..Len(result) :
                       result[i][COL_JUGADOR] # target_players[t]
    /\ pc = "raised" => value_cols = <<>>

\* a target with two records, a target with none, and a group with records
C9_Witness ==
    /\ Returned
    /\ Len(target_players) = 2
    /\ Len(TargetRecords(df, <<target_players[1]>>)) = 2
    /\ TargetRecords(df, <<target_players[2]>>) = <<>>
    /\ Len(result) = 2

(***************************************************************************)
(* C10: a run of main goes load, select, compute, render, and may stop     *)
(* early; the calculator is called only with data and with three non-empty *)
(* selections, always with the full list of configured metrics; a chart is *)
(* rendered only when the calculator returned rows, and never on an early  *)
(* exit.                                                                   *)
(***************************************************************************)
C10_MainOrder ==
    mpc # "off" =>
        /\ IsPrefix(trace, <<"load", "select", "compute", "render">>)
        /\ Called =>
             /\ data # <<>>
             /\ selected_players # <<>>
             /\ selected_references # <<>>
             /\ selected_metrics # <<>>
             /\ df = data
             /\ target_players = selected_players
             /\ reference_categories = selected_references
             /\ value_cols = COLS_ZSCORE
             /\ Len(trace) >= 3
        /\ Called <=> Len(trace) >= 3
        /\ charts > 0 =>
             /\ Returned
             /\ result # <<>>
             /\ df_dual_zscore = result
             /\ trace = <<"load", "select", "compute", "render">>
        /\ mpc = "exit" => charts = 0
        /\ mpc = "end" => charts > 0
        /\ pc # "raised"

\* a run that rendered while one metric only was selected
C10_Witness ==
    /\ mpc = "end"
    /\ charts = 1
    /\ selected_metrics = <<COL_VO2_MAX>>
    /\ value_cols = COLS_ZSCORE

====
